---------------------------- MODULE Spec2Model ----------------------------
(***************************************************************************)
(* The MLP notebook (04_music_genre_prediction_theano) as a state machine. *)
(*                                                                         *)
(* The notebook is a linear script: cell 4 and cell 5 create the six       *)
(* shared parameters, cell 6 builds the update list and compiles train and *)
(* test, cell 7 constructs the DataServer and runs the training loop, and  *)
(* cell 8 dumps the parameters.  pc is the position in that script.        *)
(*                                                                         *)
(* Abstractions.  A tensor is one scalar: a parameter is one number, an    *)
(* example is one feature value plus the width of the array it came from.  *)
(* Numbers are fixed point: a parameter value v stands for                 *)
(* v / LEARNING_RATE_DEN, so that LEARNING_RATE * g is exact.  The         *)
(* gradient that theano.tensor.grad derives is the chain rule through the  *)
(* three layers with every magnitude abstracted to its sign; it stays a    *)
(* deterministic function of the parameter values and of the batch.        *)
(***************************************************************************)
EXTENDS Integers, Sequences, FiniteSets, TLC

(***************************************************************************)
(* Cell 1: the compiled-in constants.                                      *)
(***************************************************************************)
SAMPLE_WIDTH == 1200
LEARNING_RATE_NUM == 1
LEARNING_RATE_DEN == 100
NUM_UPDATES == 5000
EVAL_STEP == 500
\* The layer widths of cells 4 and 5.
HIDDEN1 == 256
HIDDEN2 == 64

(***************************************************************************)
(* Bounds of the model.                                                    *)
(***************************************************************************)
\* BATCH_SIZE is 16 in the notebook; the model draws smaller batches.
BATCH_SIZE == 2
\* The update budgets and the evaluation intervals explored besides the
\* compiled-in ones: 1..MaxUpdates each.
MaxUpdates == 3
\* Sizes of the training and held-out arrays of the input file: 1..Max.
MaxTrain == 2
MaxTest == 3
\* Update budgets of the two-weight notebook besides its own: 0..Max.
MaxTrivialUpdates == 3

Scale == LEARNING_RATE_DEN

\* LEARNING_RATE = 0.01, and the rate of zero.
LEARNING_RATE == [num |-> LEARNING_RATE_NUM, den |-> LEARNING_RATE_DEN]
ZeroRate == [num |-> 0, den |-> 1]

VARIABLES
    file,         \* the input file IN_FILE: its state and its two arrays
    num_updates,  \* NUM_UPDATES of this run
    eval_step,    \* EVAL_STEP of this run
    learning_rate, \* LEARNING_RATE of this run, num / den
    rng,          \* the outcomes of np.random.normal, one per parameter
    pc,           \* position in the script
    shared,       \* the theano shared variables: name -> value
    ds,           \* the DataServer object
    i,            \* the loop variable of cell 7 (-1: not yet bound)
    inputs,       \* cell 7's variable inputs
    targets,      \* cell 7's variable targets
    drawn,        \* the train_idx values of the last get_train_sample call
    predictions,  \* cell 7's variable predictions
    stdout,       \* the lines printed so far
    error,        \* the exception that ended the run, or "none"
    applied       \* number of completed train calls

vars04 == <<file, num_updates, eval_step, learning_rate, rng, pc, shared, ds, i, inputs,
            targets, drawn, predictions, stdout, error, applied>>

\* The two-weight notebook (03_trivial_problem_theano).
VARIABLES
    learning_rate03,  \* LEARNING_RATE of this run
    num_updates03,    \* NUM_UPDATES of this run
    target03,         \* the expected output passed to f
    pc03,             \* position in the script
    W,                \* the theano shared variable W
    update,           \* the loop variable of cell 7 (-1: not yet bound)
    y03,              \* cell 7's variable y (<<>>: not yet bound)
    w,                \* cell 7's variable w (<<>>: not yet bound)
    stdout03          \* the lines printed so far

vars03 == <<learning_rate03, num_updates03, target03, pc03, W, update, y03, w, stdout03>>

vars == <<vars04, vars03>>

(***************************************************************************)
(* Small helpers.                                                          *)
(***************************************************************************)
Sgn(v) == IF v > 0 THEN 1 ELSE IF v < 0 THEN -1 ELSE 0

RECURSIVE SumSeq(_)
SumSeq(s) == IF s = <<>> THEN 0 ELSE Head(s) + SumSeq(Tail(s))

\* A numpy array of examples: rows (one feature value each) and shape[1].
Array(rows, width) == [rows |-> rows, width |-> width]
EmptyArray == Array(<<>>, 0)

(***************************************************************************)
(* The input file.  Row t (0-based) of an array is rows[t + 1].            *)
(***************************************************************************)
FileStates == {"ok", "missing", "malformed", "no_train", "no_test"}
Widths == {SAMPLE_WIDTH, SAMPLE_WIDTH - 1}

\* The training array of a file with n rows: row t holds feature t.
TrainRows(n) == [t \in 1..n |-> t - 1]
\* The held-out array of a file with n rows: row j holds feature j + 1.
TestRows(n) == [j \in 1..n |-> j]

\* The files explored: every pair of sizes with both arrays of the right
\* width, or with a training array of the wrong width; a held-out array of
\* the wrong width beside a one-row training array of the right one; and
\* the files that do not load.
Files ==
    { [state |-> "ok", train |-> Array(TrainRows(n), SAMPLE_WIDTH),
       test |-> Array(TestRows(m), SAMPLE_WIDTH)] : n \in 1..MaxTrain, m \in 1..MaxTest }
    \cup
    { [state |-> "ok", train |-> Array(TrainRows(n), SAMPLE_WIDTH - 1),
       test |-> Array(TestRows(m), ew)] : n \in 1..MaxTrain, m \in 1..MaxTest, ew \in Widths }
    \cup
    { [state |-> "ok", train |-> Array(TrainRows(1), SAMPLE_WIDTH),
       test |-> Array(TestRows(m), SAMPLE_WIDTH - 1)] : m \in 1..MaxTest }
    \cup
    { [state |-> s, train |-> Array(TrainRows(1), SAMPLE_WIDTH),
       test |-> Array(TestRows(1), SAMPLE_WIDTH)] : s \in FileStates \ {"ok"} }

(***************************************************************************)
(* Cell 3: init_values.  The draws of np.random.normal(scale=0.1) are      *)
(* inputs of the run; values are in units of 1 / LEARNING_RATE_DEN.        *)
(***************************************************************************)
params == <<"W1", "B1", "W2", "B2", "W3", "B3">>
ParamNames == {params[k] : k \in 1..Len(params)}

Draw(w1, b1, w2, b2, w3, b3) ==
    [n \in ParamNames |->
        CASE n = "W1" -> w1 [] n = "B1" -> b1 [] n = "W2" -> w2
          [] n = "B2" -> b2 [] n = "W3" -> w3 [] n = "B3" -> b3]

FirstDraw == Draw(30, -5, 30, 0, 10, 2)
SecondDraw == Draw(-10, 20, 10, 5, -10, 4)
InitDraws == {FirstDraw, SecondDraw}

init_values(name) == rng[name]


(***************************************************************************)
(* Cell 2: DataServer.                                                     *)
(***************************************************************************)
\* Labels are the floats 0.0 and 1.0, in fixed point.
Zero == 0
One == Scale

\* What an uncaught exception does to the script: the run stops there.
Raise == "failed"

\* The constructor asking the file for a key it does not hold.
LoadOutcomeWrongKey(f) ==
    IF f.state \in {"missing", "malformed"} THEN "IOError" ELSE "KeyError"

\* The constructor without its assert.
LoadOutcomeNoAssert(f) ==
    IF f.state \in {"missing", "malformed"} THEN "IOError"
    ELSE IF f.state \in {"no_train", "no_test"} THEN "KeyError"
    ELSE "none"

\* The exception DataServer.__init__ raises on file f, or "none".
LoadOutcome(f) ==
    IF f.state \in {"missing", "malformed"} THEN "IOError"
    ELSE IF f.state \in {"no_train", "no_test"} THEN "KeyError"
    ELSE IF f.train.width # SAMPLE_WIDTH THEN "AssertionError"
    ELSE "none"

\* The slice started at the rounded-up half.
TestTargetsCeil(n) == [j \in 1..n |-> IF j - 1 >= (n + 1) \div 2 THEN One ELSE Zero]

\* test_targets = zeros(n); test_targets[n/2:] = 1.0 (Python 2 integer division).
TestTargets(n) == [j \in 1..n |-> IF j - 1 >= n \div 2 THEN One ELSE Zero]

DataServer(f) ==
    [train |-> f.train, test |-> f.test, test_targets |-> TestTargets(Len(f.test.rows))]

\* Before cell 7 the name ds is unbound.
NoDataServer == [train |-> EmptyArray, test |-> EmptyArray, test_targets |-> <<>>]

\* get_test leaving out the last held-out example.
get_test_truncated(self) ==
    <<Array(SubSeq(self.test.rows, 1, Len(self.test.rows) - 1), self.test.width),
      SubSeq(self.test_targets, 1, Len(self.test_targets) - 1)>>

get_test(self) == <<self.test, self.test_targets>>

\* The comparison written  train_idx > n/2.
TrainTargetStrict(train_idx, n) == IF train_idx > n \div 2 THEN One ELSE Zero

\* The target get_train_sample attaches to train_idx, for n training rows.
TrainTarget(train_idx, n) == IF train_idx >= n \div 2 THEN One ELSE Zero

\* get_train_sample with the outcomes idxs[1..batch_size] of random.randrange.
get_train_sample(self, batch_size, idxs) ==
    <<Array([idx \in 1..batch_size |-> self.train.rows[idxs[idx] + 1]], self.train.width),
      [idx \in 1..batch_size |-> TrainTarget(idxs[idx], Len(self.train.rows))]>>

(***************************************************************************)
(* Cells 4 and 5: the network.  Layer1 is in units of 1/Scale, Layer2 in   *)
(* units of 1/Scale^2 and Logit in units of 1/Scale^3, so that the         *)
(* products are exact.                                                     *)
(***************************************************************************)
Relu(v) == IF v > 0 THEN v ELSE 0

Layer1(p, x) == Relu(x * p["W1"] + p["B1"])
Layer2(p, x) == Relu(Layer1(p, x) * p["W2"] + p["B2"] * Scale)
Logit(p, x) == Layer2(p, x) * p["W3"] + p["B3"] * Scale * Scale

\* sigmoid to two decimals, by its tangent at 0 (1/2 + z/4), kept in [0, 1].
Sigmoid(z) ==
    LET v == (Scale \div 2) + z \div (4 * Scale * Scale)
    IN  IF v < Zero THEN Zero ELSE IF v > One THEN One ELSE v

\* y of cell 5 for the rows of an array: one prediction per example.
y(p, rows) == [k \in 1..Len(rows) |-> Sigmoid(Logit(p, rows[k]))]

\* dot(x, W1) needs x.shape[1] = W1.shape[0] = SAMPLE_WIDTH.
ShapeOK(x) == x.width = SAMPLE_WIDTH

(***************************************************************************)
(* Cell 6: cost, gradients, updates, train, test.                          *)
(***************************************************************************)
\* Sign of d cost / d logit for one example: d/dy sqr(t - y) has the sign
\* of y - t, and the slope of the sigmoid is positive unless saturated.
DLogit(p, x, t) ==
    LET out == Sigmoid(Logit(p, x))
    IN  IF out = Zero \/ out = One THEN 0 ELSE Sgn(out - t)

DPre2(p, x, t) == IF Layer2(p, x) > 0 THEN DLogit(p, x, t) * Sgn(p["W3"]) ELSE 0
DPre1(p, x, t) == IF Layer1(p, x) > 0 THEN DPre2(p, x, t) * Sgn(p["W2"]) ELSE 0

\* Sign of d cost / d name for one example (x, t), by the chain rule.
GradOne(name, p, x, t) ==
    CASE name = "B3" -> DLogit(p, x, t)
      [] name = "W3" -> DLogit(p, x, t) * Sgn(Layer2(p, x))
      [] name = "B2" -> DPre2(p, x, t)
      [] name = "W2" -> DPre2(p, x, t) * Sgn(Layer1(p, x))
      [] name = "B1" -> DPre1(p, x, t)
      [] name = "W1" -> DPre1(p, x, t) * Sgn(x)

\* theano.tensor.grad(cost, name) at parameter values p and batch (x, t):
\* the sign of the mean over the batch.
Grad(name, p, x, t) ==
    Sgn(SumSeq([k \in 1..Len(x.rows) |-> GradOne(name, p, x.rows[k], t[k])]))

\* The gradient list one position out of step with params.
gradients_shifted(p, x, t) ==
    [idx \in 1..Len(params) |-> Grad(params[(idx % Len(params)) + 1], p, x, t)]

\* gradients = theano.tensor.grad(cost, params): aligned with params.
gradients(p, x, t) == [idx \in 1..Len(params) |-> Grad(params[idx], p, x, t)]

\* The product taken with the notebook's 0.01 whatever the run's rate is.
TimesCompiledRate(g) == (g * LEARNING_RATE_NUM * Scale) \div LEARNING_RATE_DEN

\* g * LEARNING_RATE, in units of 1 / LEARNING_RATE_DEN.
TimesLearningRate(g) == (g * learning_rate.num * Scale) \div learning_rate.den

\* updates: the list of (param, updated_param) pairs.
updates(p, x, t) ==
    [param_idx \in 1..Len(params) |->
        <<params[param_idx],
          p[params[param_idx]] - TimesLearningRate(gradients(p, x, t)[param_idx])>>]

\* A compiled function assigns every update at once, all of them computed
\* from the values the shared variables held when it was called.
ApplyUpdates(p, u) ==
    [n \in DOMAIN p |->
        IF \E k \in 1..Len(u) : u[k][1] = n
        THEN u[CHOOSE k \in 1..Len(u) : u[k][1] = n][2]
        ELSE p[n]]

\* A train call that carries out its updates twice over.
train_twice(p, x, t) ==
    IF ShapeOK(x)
    THEN [error |-> "none", outputs |-> <<>>,
          shared |-> ApplyUpdates(ApplyUpdates(p, updates(p, x, t)),
                                  updates(ApplyUpdates(p, updates(p, x, t)), x, t))]
    ELSE [error |-> "ValueError", outputs |-> <<>>, shared |-> p]

\* train = theano.function([x, target], updates=updates)
train(p, x, t) ==
    IF ShapeOK(x)
    THEN [error |-> "none", outputs |-> <<>>, shared |-> ApplyUpdates(p, updates(p, x, t))]
    ELSE [error |-> "ValueError", outputs |-> <<>>, shared |-> p]

\* test compiled with an update of its own.
test_with_update(p, x) ==
    [error |-> IF ShapeOK(x) THEN "none" ELSE "ValueError",
     outputs |-> IF ShapeOK(x) THEN y(p, x.rows) ELSE <<>>,
     shared |-> ApplyUpdates(p, <<<<"B3", p["B3"] - 1>>>>)]

\* test = theano.function([x], y)
test(p, x) ==
    IF ShapeOK(x)
    THEN [error |-> "none", outputs |-> y(p, x.rows), shared |-> p]
    ELSE [error |-> "ValueError", outputs |-> <<>>, shared |-> p]

(***************************************************************************)
(* Cell 7: the accuracy computation.                                       *)
(***************************************************************************)
\* Truncation towards minus infinity in place of rounding.
np_floor(v) == (v \div Scale) * Scale

\* numpy's round: to the nearest whole number, ties to the even one.
np_round(v) ==
    LET q == v \div Scale
        r == v % Scale
    IN  IF 2 * r < Scale THEN q * Scale
        ELSE IF 2 * r > Scale THEN (q + 1) * Scale
        ELSE IF q % 2 = 0 THEN q * Scale ELSE (q + 1) * Scale

np_clip(v, lo, hi) == IF v < lo THEN lo ELSE IF v > hi THEN hi ELSE v

\* predictions.round().clip(0, 1)
RoundClip(preds) == [k \in 1..Len(preds) |-> np_clip(np_round(preds[k]), Zero, One)]

\* ((predictions == targets)*1.0).sum()
Matches(preds, targs) == Cardinality({k \in 1..Len(targs) : preds[k] = targs[k]})

\* float(performance)*100, in units of 1/Scale percent.
Percent(matches, n) == (matches * 100 * Scale) \div n

AccuracyLine(step, total, percent) ==
    [kind |-> "accuracy", step |-> step, total |-> total, percent |-> percent]

\* The test written  i % EVAL_STEP == 0.
IsEvalStepOffByOne(idx, step) == idx % step = 0

\* The test that also holds in the last iteration of the loop.
IsEvalStepOrLast(idx, step) == (idx + 1) % step = 0 \/ idx + 1 = num_updates

\* (i + 1) % EVAL_STEP == 0
IsEvalStep(idx, step) == (idx + 1) % step = 0

\* The loop running one iteration too many.
ForNextInclusive(cur, n) ==
    IF cur + 1 <= n THEN [i |-> cur + 1, pc |-> "get_train_sample"]
    ELSE [i |-> cur, pc |-> "cell8"]

\* The next iteration of  for i in xrange(NUM_UPDATES), after iteration cur.
ForNext(cur, n) ==
    IF cur + 1 < n THEN [i |-> cur + 1, pc |-> "get_train_sample"]
    ELSE [i |-> cur, pc |-> "cell8"]

(***************************************************************************)
(* Cell 8: the parameter dump.                                             *)
(***************************************************************************)
Shape(name) ==
    CASE name = "W1" -> <<SAMPLE_WIDTH, HIDDEN1>>
      [] name = "B1" -> <<1, HIDDEN1>>
      [] name = "W2" -> <<HIDDEN1, HIDDEN2>>
      [] name = "B2" -> <<1, HIDDEN2>>
      [] name = "W3" -> <<HIDDEN2, 1>>
      [] name = "B3" -> <<1, 1>>

ParameterLines(p) ==
    [k \in 1..Len(params) |->
        [kind |-> "parameter", param_idx |-> k - 1, dtype |-> "float32",
         shape |-> Shape(params[k]), value |-> p[params[k]]]]

(***************************************************************************)
(* The two-weight notebook.  Its numbers are kept as exact fractions       *)
(* num / den in lowest terms, den > 0.                                     *)
(***************************************************************************)
Abs(v) == IF v < 0 THEN -v ELSE v

RECURSIVE Gcd(_, _)
Gcd(a, b) == IF b = 0 THEN a ELSE Gcd(b, a % b)

Rat(n, d) ==
    LET g == Gcd(Abs(n), d)
    IN  [num |-> n \div g, den |-> d \div g]

RAdd(p, q) ==
    LET g == Gcd(p.den, q.den)
    IN  Rat(p.num * (q.den \div g) + q.num * (p.den \div g), (p.den \div g) * q.den)
RNeg(p) == [num |-> -p.num, den |-> p.den]
RSub(p, q) == RAdd(p, RNeg(q))
RMul(p, q) == Rat(p.num * q.num, p.den * q.den)
RAbs(p) == [num |-> Abs(p.num), den |-> p.den]
RLess(p, q) == RSub(p, q).num < 0

\* Cell 1.
TRIVIAL_LEARNING_RATE == Rat(3, 5)
TRIVIAL_NUM_UPDATES == 10

\* Cell 3: numpy.asarray([0.2, 0.7])
W_initial == <<Rat(1, 5), Rat(7, 10)>>

\* Cell 7: the arguments of every call, f([1.0, 0.5], 20.0).
trivial_x == <<Rat(1, 1), Rat(1, 2)>>
trivial_target == Rat(20, 1)

\* Cell 4: y = (x * W).sum()
trivial_y(x, Wv) == RAdd(RMul(x[1], Wv[1]), RMul(x[2], Wv[2]))

\* cost = theano.tensor.sqr(target - y)
trivial_cost(x, t, Wv) == RMul(RSub(t, trivial_y(x, Wv)), RSub(t, trivial_y(x, Wv)))

\* gradients = theano.tensor.grad(cost, [W]):  d cost / d W[j] = -2 (target - y) x[j]
trivial_gradients(x, t, Wv) ==
    << [j \in 1..2 |-> RMul(Rat(-2, 1), RMul(RSub(t, trivial_y(x, Wv)), x[j]))] >>

\* The update with the gradient added in place of subtracted.
W_updated_plus(Wv, lr, g) == [j \in 1..2 |-> RAdd(Wv[j], RMul(lr, g[j]))]

\* Cell 5: W_updated = W - LEARNING_RATE * gradients[0]
W_updated(Wv, lr, g) == [j \in 1..2 |-> RSub(Wv[j], RMul(lr, g[j]))]

\* updates = [(W, W_updated)]
trivial_updates(x, t, Wv, lr) ==
    << <<"W", W_updated(Wv, lr, trivial_gradients(x, t, Wv)[1])>> >>

\* f with its outputs computed after the update has been applied.
trivial_f_after(x, t, Wv, lr) ==
    LET new == trivial_updates(x, t, Wv, lr)[1][2]
    IN  [outputs |-> <<trivial_y(x, new), new>>, W |-> new]

\* Cell 6: f = theano.function([x, target], [y, W], updates=updates).  The
\* outputs are computed from the value W holds at the call; the update is
\* assigned when they have been.
trivial_f(x, t, Wv, lr) ==
    [outputs |-> <<trivial_y(x, Wv), Wv>>, W |-> trivial_updates(x, t, Wv, lr)[1][2]]

\* print "Output before update {} is {}"
OutputLine(k, yv) == [kind |-> "output", update |-> k, y |-> yv]

\* print "Final weights values: w1: {} w2: {}".format(w[0], w[1])
FinalLine(wv) == [kind |-> "final", w1 |-> wv[1], w2 |-> wv[2]]

\* The loop written  for update in range(NUM_UPDATES).
RangeHasNextExclusive(cur, n) == cur + 1 < n

\* for update in range(NUM_UPDATES + 1): whether an iteration follows cur.
RangeHasNext(cur, n) == cur + 1 < n + 1

\* The two-weight notebook when it is not the one being run.
Idle03 ==
    /\ learning_rate03 = TRIVIAL_LEARNING_RATE
    /\ num_updates03 = TRIVIAL_NUM_UPDATES
    /\ target03 = trivial_target
    /\ pc03 = "idle"
    /\ W = <<>>
    /\ update = -1
    /\ y03 = <<>>
    /\ w = <<>>
    /\ stdout03 = <<>>

(***************************************************************************)
(* The runs explored.  A small run has an update budget and an evaluation  *)
(* interval of 1..MaxUpdates; the first initial draw is run on every input *)
(* file, the second on the files with the largest held-out array.  The     *)
(* compiled run has the notebook's budget (NUM_UPDATES, EVAL_STEP) on the  *)
(* smallest valid file.  A run has the notebook's LEARNING_RATE, or zero.  *)
(***************************************************************************)
Run(f, n, e, r) ==
    [file |-> f, num_updates |-> n, eval_step |-> e, rng |-> r, learning_rate |-> LEARNING_RATE]

SmallRuns ==
    { Run(f, n, e, FirstDraw) : f \in Files, n \in 1..MaxUpdates, e \in 1..MaxUpdates }
    \cup
    { Run(f, n, e, SecondDraw) :
        f \in {g \in Files : Len(g.test.rows) = MaxTest},
        n \in 1..MaxUpdates, e \in 1..MaxUpdates }

CompiledFile ==
    [state |-> "ok", train |-> Array(TrainRows(1), SAMPLE_WIDTH),
     test |-> Array(TestRows(2), SAMPLE_WIDTH)]

CompiledRuns ==
    { Run(CompiledFile, NUM_UPDATES, EVAL_STEP, r) : r \in {FirstDraw} }

\* Runs with LEARNING_RATE set to zero, on the files with a held-out array
\* of one row.
ZeroRateRuns ==
    { [Run(f, n, e, FirstDraw) EXCEPT !.learning_rate = ZeroRate] :
        f \in {g \in Files : LoadOutcome(g) = "none" /\ ShapeOK(g.test) /\ Len(g.test.rows) = 1},
        n \in 1..MaxUpdates, e \in 1..MaxUpdates }

Runs == SmallRuns \cup CompiledRuns \cup ZeroRateRuns

Init ==
    /\ \E run \in Runs :
        /\ file = run.file
        /\ num_updates = run.num_updates
        /\ eval_step = run.eval_step
        /\ rng = run.rng
        /\ learning_rate = run.learning_rate
    /\ pc = "cell4"
    /\ shared = [n \in {} |-> 0]
    /\ ds = NoDataServer
    /\ i = -1
    /\ inputs = EmptyArray
    /\ targets = <<>>
    /\ drawn = <<>>
    /\ predictions = <<>>
    /\ stdout = <<>>
    /\ error = "none"
    /\ applied = 0
    /\ Idle03

\* Cell 4: W1 and B1 are created.
Cell4 ==
    /\ pc = "cell4"
    /\ UNCHANGED vars03
    /\ shared' = [n \in {"W1", "B1"} |-> init_values(n)]
    /\ pc' = "cell5"
    /\ UNCHANGED <<file, num_updates, eval_step, learning_rate, rng, ds, i, inputs, targets, drawn,
                   predictions, stdout, error, applied>>

\* Cell 5: W2, B2, W3 and B3 are created.  Cell 6 only defines and compiles.
Cell5 ==
    /\ pc = "cell5"
    /\ UNCHANGED vars03
    /\ shared' = [n \in ParamNames |-> IF n \in DOMAIN shared THEN shared[n] ELSE init_values(n)]
    /\ pc' = "cell7"
    /\ UNCHANGED <<file, num_updates, eval_step, learning_rate, rng, ds, i, inputs, targets, drawn,
                   predictions, stdout, error, applied>>

\* Cell 7, ds = DataServer(): the file is loaded and the loop is entered,
\* or the constructor raises.
NewDataServer ==
    /\ pc = "cell7"
    /\ UNCHANGED vars03
    /\ LET e == LoadOutcome(file)
           next == ForNext(i, num_updates)
       IN  IF e = "none"
           THEN /\ ds' = DataServer(file)
                /\ i' = next.i
                /\ pc' = next.pc
                /\ error' = error
           ELSE /\ error' = e
                /\ pc' = Raise
                /\ UNCHANGED <<ds, i>>
    /\ UNCHANGED <<file, num_updates, eval_step, learning_rate, rng, shared, inputs, targets, drawn,
                   predictions, stdout, applied>>

\* inputs, targets = ds.get_train_sample(BATCH_SIZE)
GetTrainSample ==
    /\ pc = "get_train_sample"
    /\ UNCHANGED vars03
    /\ \E idxs \in [1..BATCH_SIZE -> 0..(Len(ds.train.rows) - 1)] :
        LET sample == get_train_sample(ds, BATCH_SIZE, idxs)
        IN  /\ inputs' = sample[1]
            /\ targets' = sample[2]
            /\ drawn' = idxs
    /\ pc' = "train"
    /\ UNCHANGED <<file, num_updates, eval_step, learning_rate, rng, shared, ds, i, predictions,
                   stdout, error, applied>>

\* train(inputs, targets), then the test  if (i + 1) % EVAL_STEP == 0.
Train ==
    /\ pc = "train"
    /\ UNCHANGED vars03
    /\ LET r == train(shared, inputs, targets)
           next == ForNext(i, num_updates)
       IN  IF r.error = "none"
           THEN /\ shared' = r.shared
                /\ applied' = applied + 1
                /\ error' = error
                /\ IF IsEvalStep(i, eval_step)
                   THEN pc' = "get_test" /\ i' = i
                   ELSE pc' = next.pc /\ i' = next.i
           ELSE /\ error' = r.error
                /\ pc' = Raise
                /\ UNCHANGED <<shared, applied, i>>
    /\ UNCHANGED <<file, num_updates, eval_step, learning_rate, rng, ds, inputs, targets, drawn,
                   predictions, stdout>>

\* inputs, targets = ds.get_test(); predictions = test(inputs)
Evaluate ==
    /\ pc = "get_test"
    /\ UNCHANGED vars03
    /\ LET held == get_test(ds)
           r == test(shared, held[1])
       IN  /\ inputs' = held[1]
           /\ targets' = held[2]
           /\ shared' = r.shared
           /\ IF r.error = "none"
              THEN /\ predictions' = r.outputs
                   /\ pc' = "score"
                   /\ error' = error
              ELSE /\ error' = r.error
                   /\ pc' = Raise
                   /\ UNCHANGED predictions
    /\ UNCHANGED <<file, num_updates, eval_step, learning_rate, rng, ds, i, drawn, stdout, applied>>

\* predictions = predictions.round().clip(0, 1); performance = ...; print ...
Score ==
    /\ pc = "score"
    /\ UNCHANGED vars03
    /\ LET rounded == RoundClip(predictions)
           performance == Percent(Matches(rounded, targets), Len(targets))
           next == ForNext(i, num_updates)
       IN  /\ predictions' = rounded
           /\ stdout' = Append(stdout, AccuracyLine(i + 1, num_updates, performance))
           /\ i' = next.i
           /\ pc' = next.pc
    /\ UNCHANGED <<file, num_updates, eval_step, learning_rate, rng, shared, ds, inputs, targets, drawn,
                   error, applied>>

\* Cell 8: params = theano.function([], params)(), one line per parameter.
Cell8 ==
    /\ pc = "cell8"
    /\ UNCHANGED vars03
    /\ stdout' = stdout \o ParameterLines(shared)
    /\ pc' = "done"
    /\ UNCHANGED <<file, num_updates, eval_step, learning_rate, rng, shared, ds, i, inputs, targets,
                   drawn, predictions, error, applied>>

Next ==
    \/ Cell4
    \/ Cell5
    \/ NewDataServer
    \/ GetTrainSample
    \/ Train
    \/ Evaluate
    \/ Score
    \/ Cell8

Spec == Init /\ [][Next]_vars

\* The script is sequential and nothing in it waits: a statement that can
\* run does run.  That is weak fairness of every action.  For Train the
\* condition is written out, with ENABLED <<Train>>_vars as pc = "train"
\* (a train call always moves pc).
Fairness ==
    /\ WF_vars(Cell4 \/ Cell5 \/ NewDataServer \/ GetTrainSample \/ Evaluate \/ Score \/ Cell8)
    /\ (([]<>(pc # "train")) \/ ([]<><<Train>>_vars))

FairSpec == Spec /\ Fairness

(***************************************************************************)
(* The two-weight notebook as a state machine.  A run has the notebook's   *)
(* LEARNING_RATE or another one, zero included, the notebook's NUM_UPDATES *)
(* or a budget of 0..MaxTrivialUpdates, and the notebook's expected output *)
(* or another one.                                                         *)
(***************************************************************************)
LearningRates == {Rat(0, 1), Rat(1, 5), TRIVIAL_LEARNING_RATE}
TrivialBudgets == (0..MaxTrivialUpdates) \cup {TRIVIAL_NUM_UPDATES}
\* The expected output: the notebook's 20.0, the output of the initial
\* weights (gradient zero), and one below it (gradient of the other sign).
Targets == {trivial_target, trivial_y(trivial_x, W_initial), Rat(-5, 1)}

\* The music notebook when it is not the one being run.
Idle04 ==
    /\ file = CompiledFile
    /\ num_updates = NUM_UPDATES
    /\ eval_step = EVAL_STEP
    /\ learning_rate = LEARNING_RATE
    /\ rng = FirstDraw
    /\ pc = "idle"
    /\ shared = [n \in {} |-> 0]
    /\ ds = NoDataServer
    /\ i = -1
    /\ inputs = EmptyArray
    /\ targets = <<>>
    /\ drawn = <<>>
    /\ predictions = <<>>
    /\ stdout = <<>>
    /\ error = "none"
    /\ applied = 0

TrivialInit ==
    /\ learning_rate03 \in LearningRates
    /\ num_updates03 \in TrivialBudgets
    /\ target03 \in Targets
    /\ pc03 = "cell3"
    /\ W = <<>>
    /\ update = -1
    /\ y03 = <<>>
    /\ w = <<>>
    /\ stdout03 = <<>>
    /\ Idle04

\* Cell 3: W = theano.shared(numpy.asarray([0.2, 0.7]), 'W').  Cells 4 to 6
\* only define and compile.
TrivialCell3 ==
    /\ pc03 = "cell3"
    /\ W' = W_initial
    /\ pc03' = "for"
    /\ UNCHANGED <<learning_rate03, num_updates03, target03, update, y03, w, stdout03>>
    /\ UNCHANGED vars04

\* An iteration of the loop begins:  y, w = f([1.0, 0.5], 20.0)
CallF ==
    /\ pc03 = "for"
    /\ RangeHasNext(update, num_updates03)
    /\ LET r == trivial_f(trivial_x, target03, W, learning_rate03)
       IN  /\ y03' = r.outputs[1]
           /\ w' = r.outputs[2]
           /\ W' = r.W
    /\ update' = update + 1
    /\ pc03' = "print"
    /\ UNCHANGED <<learning_rate03, num_updates03, target03, stdout03>>
    /\ UNCHANGED vars04

\* print "Output before update {} is {}".format(update + 1, y)
PrintOutput ==
    /\ pc03 = "print"
    /\ stdout03' = Append(stdout03, OutputLine(update + 1, y03))
    /\ pc03' = "for"
    /\ UNCHANGED <<learning_rate03, num_updates03, target03, W, update, y03, w>>
    /\ UNCHANGED vars04

\* The loop is over:  print "Final weights values: ..."
\* (NameError when no iteration has bound w).
PrintFinal ==
    /\ pc03 = "for"
    /\ ~RangeHasNext(update, num_updates03)
    /\ IF w = <<>>
       THEN pc03' = Raise /\ stdout03' = stdout03
       ELSE pc03' = "done" /\ stdout03' = Append(stdout03, FinalLine(w))
    /\ UNCHANGED <<learning_rate03, num_updates03, target03, W, update, y03, w>>
    /\ UNCHANGED vars04

TrivialNext ==
    \/ TrivialCell3
    \/ CallF
    \/ PrintOutput
    \/ PrintFinal

TrivialSpec == TrivialInit /\ [][TrivialNext]_vars

\* A run of either notebook.
NotebooksInit == Init \/ TrivialInit
NotebooksNext == Next \/ TrivialNext
NotebooksSpec == NotebooksInit /\ [][NotebooksNext]_vars

(***************************************************************************)
(* Properties.                                                             *)
(***************************************************************************)
AccuracyLines == SelectSeq(stdout, LAMBDA l : l.kind = "accuracy")

\* The update steps whose  if (i + 1) % EVAL_STEP == 0  has been carried
\* out to its end (the report printed, when there is one).
StepsClosed ==
    IF pc \in {"cell8", "done"} THEN num_updates
    ELSE IF i = -1 THEN 0
    ELSE i

\* C1: an accuracy report follows update k iff k is a multiple of
\* eval_step, once each and in increasing order of k; the notebook's own
\* constants give exactly ten reports.
C1_ReportEveryEvalStep ==
    /\ Len(AccuracyLines) = StepsClosed \div eval_step
    /\ \A k \in 1..Len(AccuracyLines) :
        /\ AccuracyLines[k].step = k * eval_step
        /\ AccuracyLines[k].total = num_updates
    /\ pc \in {"get_test", "score"} => applied = i + 1 /\ (i + 1) % eval_step = 0
    /\ (pc = "done" /\ num_updates = NUM_UPDATES /\ eval_step = EVAL_STEP)
        => Len(AccuracyLines) = 10

C1_Witness ==
    /\ pc = "done"
    /\ num_updates = NUM_UPDATES
    /\ eval_step = EVAL_STEP
    /\ Len(AccuracyLines) = 10
    /\ AccuracyLines[10].step = NUM_UPDATES

\* C2: an evaluation, a batch draw and the parameter dump leave every
\* parameter as it was; only a train call changes a parameter.
C2_OnlyTrainWrites ==
    [][(pc \in {"get_train_sample", "get_test", "score", "cell8"}) => (shared' = shared)]_vars

C2_Witness ==
    /\ pc = "done"
    /\ applied >= 2
    /\ Len(AccuracyLines) >= 2
    /\ shared # rng

\* C3: a train call replaces every parameter n by n - LEARNING_RATE * (the
\* gradient for n at the values held before the call), each once and all
\* from the old values.
C3_UpdateRule ==
    [][(pc = "train") =>
        /\ DOMAIN shared' = ParamNames
        /\ \A n \in ParamNames :
            learning_rate.den * (shared[n] - shared'[n])
                = learning_rate.num * Grad(n, shared, inputs, targets) * Scale
        /\ applied' = applied + 1]_vars

C3_Witness ==
    /\ applied = 1
    /\ pc # "train"
    /\ Cardinality({n \in ParamNames : shared[n] # rng[n]}) >= 3
    /\ \E n \in ParamNames : shared[n] = rng[n]

\* The input file loads and both of its arrays have the width of the net.
ValidRun == LoadOutcome(file) = "none" /\ ShapeOK(file.test)

\* C4: the run ends, and ends after exactly num_updates train calls: the
\* count never passes num_updates, the dump is reached only with all of
\* them applied, and only a data error ends a run before that.
C4_BudgetDrivenTermination ==
    /\ [](applied <= num_updates)
    /\ [](pc \in {"cell8", "done"} => applied = num_updates)
    /\ [](pc = "failed" => ~ValidRun)
    /\ <>(pc \in {"done", "failed"})
    /\ (ValidRun ~> (pc = "done"))

C4_Witness ==
    /\ pc = "done"
    /\ ValidRun
    /\ applied = num_updates
    /\ num_updates >= 2
    /\ Cardinality({AccuracyLines[k].percent : k \in 1..Len(AccuracyLines)}) >= 2

\* C5: a batch has exactly BATCH_SIZE pairs; the input at idx is the
\* training row at the drawn index, which is within the collection, and
\* its target is 0.0 for an index in the first half and 1.0 otherwise.
C5_TrainSample ==
    pc = "train" =>
        /\ Len(inputs.rows) = BATCH_SIZE
        /\ Len(targets) = BATCH_SIZE
        /\ \A idx \in 1..BATCH_SIZE :
            /\ drawn[idx] \in 0..(Len(file.train.rows) - 1)
            /\ inputs.rows[idx] = file.train.rows[drawn[idx] + 1]
            /\ targets[idx] =
                (IF drawn[idx] < Len(file.train.rows) \div 2 THEN Zero ELSE One)

C5_Witness ==
    /\ pc = "train"
    /\ Len(file.train.rows) = MaxTrain
    /\ drawn[1] = drawn[2]
    /\ applied >= 1

Count(seq, v) == Cardinality({k \in 1..Len(seq) : seq[k] = v})

\* The targets get_train_sample attaches to the training indices 0..n-1.
TrainLabels == [t \in 1..Len(ds.train.rows) |-> TrainTarget(t - 1, Len(ds.train.rows))]

\* C6 as stated: in both collections, for every size, as many examples
\* are labelled 1.0 as are labelled 0.0.
C6_EvenSplitAnySize ==
    ds # NoDataServer =>
        /\ Count(ds.test_targets, One) = Count(ds.test_targets, Zero)
        /\ Count(TrainLabels, One) = Count(TrainLabels, Zero)

\* C6 as amended: in both collections the examples labelled 1.0 outnumber
\* those labelled 0.0 by N mod 2: the split is even exactly when N is even,
\* and for odd N class 1.0 has one example more.
C6_SplitEvenUpToParity ==
    ds # NoDataServer =>
        /\ Len(ds.test_targets) = Len(file.test.rows)
        /\ Count(ds.test_targets, One) - Count(ds.test_targets, Zero)
            = Len(file.test.rows) % 2
        /\ Count(ds.test_targets, One) + Count(ds.test_targets, Zero)
            = Len(file.test.rows)
        /\ Count(TrainLabels, One) - Count(TrainLabels, Zero) = Len(file.train.rows) % 2
        /\ Count(TrainLabels, One) + Count(TrainLabels, Zero) = Len(file.train.rows)

C6_Witness ==
    /\ pc = "train"
    /\ Len(ds.test_targets) = 3
    /\ Count(ds.test_targets, One) = 2
    /\ Len(ds.train.rows) = 1
    /\ Count(targets, One) = BATCH_SIZE

(***************************************************************************)
(* The accuracy computation on its own: Score applied to any prediction    *)
(* values, also ones no sigmoid produces.                                  *)
(***************************************************************************)
PredValues == {-250, -150, -50, -1, 0, 1, 49, 50, 51, 99, 100, 101, 149, 150, 151, 250}

ScoreInit ==
    /\ \E m \in 1..MaxTest :
        /\ file = [state |-> "ok", train |-> Array(TrainRows(1), SAMPLE_WIDTH),
                   test |-> Array(TestRows(m), SAMPLE_WIDTH)]
        /\ predictions \in [1..m -> PredValues]
    /\ num_updates = 1
    /\ eval_step = 1
    /\ learning_rate = LEARNING_RATE
    /\ rng \in InitDraws
    /\ pc = "score"
    /\ shared = rng
    /\ ds = DataServer(file)
    /\ i = 0
    /\ inputs = get_test(ds)[1]
    /\ targets = get_test(ds)[2]
    /\ drawn = [idx \in 1..BATCH_SIZE |-> 0]
    /\ stdout = <<>>
    /\ error = "none"
    /\ applied = 1
    /\ Idle03

ScoreNext == Score

ScoreSpec == ScoreInit /\ [][ScoreNext]_vars

\* A prediction clamped to [0, 1] and then rounded to the nearest integer
\* (1/2 goes to 0, the even neighbour).
ClampThenRound(v) ==
    LET c == IF v < 0 THEN 0 ELSE IF v > Scale THEN Scale ELSE v
    IN  IF 2 * c > Scale THEN Scale ELSE 0

\* C7: the reported accuracy is the share of held-out examples whose
\* prediction, clamped to [0, 1] and then rounded, equals the label; the
\* code's round-then-clip classifies every prediction value the same way,
\* and the report lies between 0% and 100%.
C7_AccuracyIsShareOfMatches ==
    [][(pc = "score") =>
        LET cls == [k \in 1..Len(predictions) |-> ClampThenRound(predictions[k])]
            hits == Cardinality({k \in 1..Len(targets) : cls[k] = targets[k]})
            line == stdout'[Len(stdout')]
        IN  /\ predictions' = cls
            /\ Len(stdout') = Len(stdout) + 1
            /\ line.kind = "accuracy"
            /\ line.percent = (hits * 100 * Scale) \div Len(targets)
            /\ line.percent >= 0
            /\ line.percent <= 100 * Scale]_vars

C7_Witness ==
    /\ pc = "cell8"
    /\ Len(targets) = 3
    /\ Len(stdout) = 1
    /\ stdout[1].percent = 6666
    /\ predictions = <<0, 0, Scale>>

\* C8 as stated: when loading fails, no parameter exists and no update
\* has been applied.
C8_NoStateAtLoadFailure ==
    error \in {"IOError", "KeyError"} => (DOMAIN shared = {} /\ applied = 0)

\* C8 as amended: a load failure comes from a missing or malformed file or
\* a missing tensor, ends the run, and is raised before the loop is entered:
\* no batch drawn, no update applied, nothing printed.  The six parameters
\* exist by then, holding their initial values (cells 4 and 5 run before
\* cell 7).
C8_LoadFailureBeforeAnyUpdate ==
    error \in {"IOError", "KeyError"} =>
        /\ file.state # "ok"
        /\ pc = "failed"
        /\ applied = 0
        /\ i = -1
        /\ drawn = <<>>
        /\ ds = NoDataServer
        /\ stdout = <<>>
        /\ DOMAIN shared = ParamNames
        /\ shared = rng

C8_Witness ==
    /\ error = "KeyError"
    /\ file.state = "no_test"
    /\ pc = "failed"
    /\ DOMAIN shared = ParamNames

\* The file loads but one of its arrays has not the width of the net.
TrainWidthMismatch == file.state = "ok" /\ ~ShapeOK(file.train)
TestWidthMismatchOnly == file.state = "ok" /\ ShapeOK(file.train) /\ ~ShapeOK(file.test)

\* C9 as stated: with a width mismatch in either array the run stops with
\* no update applied.
C9_NoUpdateOnWidthMismatch ==
    (TrainWidthMismatch \/ TestWidthMismatchOnly) => (applied = 0 /\ pc # "done")

\* What the code does in the cases of C9: a mismatch of the training array
\* stops the run in the DataServer constructor, with no update applied.  A
\* mismatch of the held-out array alone is not looked at when loading: it
\* stops the run at the first evaluation, after exactly eval_step updates
\* and before any report, and a run with eval_step > num_updates ends
\* without noticing.
C9_WidthMismatchAbort ==
    /\ error = "AssertionError" => TrainWidthMismatch
    /\ TrainWidthMismatch =>
        /\ applied = 0
        /\ ds = NoDataServer
        /\ pc \in {"cell4", "cell5", "cell7", "failed"}
        /\ pc = "failed" => error = "AssertionError"
    /\ error = "ValueError" =>
        /\ TestWidthMismatchOnly
        /\ pc = "failed"
        /\ applied = eval_step
        /\ AccuracyLines = <<>>
    /\ TestWidthMismatchOnly =>
        /\ applied <= eval_step
        /\ pc = "failed" => error = "ValueError"
        /\ pc \in {"cell8", "done"} => eval_step > num_updates
        /\ pc # "score"

C9_Witness ==
    /\ error = "ValueError"
    /\ pc = "failed"
    /\ applied = eval_step
    /\ applied >= 2
    /\ num_updates > eval_step

\* The labels of a collection of n examples by the halves rule.
HalvesLabels(n) == [j \in 1..n |-> IF j - 1 < n \div 2 THEN Zero ELSE One]

\* C10: get_test returns the whole held-out array of the file, in stored
\* order, with 0.0 for the first half and 1.0 for the second, at every
\* call, whatever was sampled or updated before.
C10_GetTestWholeSet ==
    /\ ds # NoDataServer =>
        get_test(ds) = <<file.test, HalvesLabels(Len(file.test.rows))>>
    /\ pc = "score" =>
        /\ inputs = file.test
        /\ targets = HalvesLabels(Len(file.test.rows))

C10_Witness ==
    /\ pc = "score"
    /\ Len(AccuracyLines) >= 1
    /\ applied >= 2
    /\ Len(inputs.rows) = 3
    /\ shared # rng
(***************************************************************************)
(* Properties of the two-weight notebook.                                  *)
(***************************************************************************)
OutputLines == SelectSeq(stdout03, LAMBDA l : l.kind = "output")

\* One update of the weights prev, as the notebook defines it.
OneUpdate(prev) ==
    W_updated(prev, learning_rate03, trivial_gradients(trivial_x, target03, prev)[1])

\* The weights that result from exactly 0, 1, ..., k updates of the initial
\* weights: WTrace(k)[j + 1] is the result of j updates.
RECURSIVE WTrace(_)
WTrace(k) ==
    IF k = 0 THEN <<W_initial>>
    ELSE CHOOSE next \in { Append(t, OneUpdate(t[k])) : t \in {WTrace(k - 1)} } : TRUE

\* C11: the k-th call of f returns the output and the weights of exactly
\* k - 1 updates, the first call those of the initial weights, while W
\* itself has had k; NUM_UPDATES + 1 calls are made, so that the values
\* returned last are those of NUM_UPDATES updates.
C11_ReturnsValuesBeforeUpdate ==
    \A after \in {WTrace(update + 1)} :
        /\ update >= 0 =>
            /\ w = after[update + 1]
            /\ y03 = trivial_y(trivial_x, after[update + 1])
            /\ W = after[update + 2]
        /\ Len(OutputLines) \in {update, update + 1}
        /\ \A k \in 1..Len(OutputLines) :
            /\ OutputLines[k].update = k
            /\ OutputLines[k].y = trivial_y(trivial_x, after[k])
        /\ Len(OutputLines) >= 1 => OutputLines[1].y = trivial_y(trivial_x, W_initial)
        /\ pc03 = "done" =>
            /\ Len(OutputLines) = num_updates03 + 1
            /\ update = num_updates03
            /\ w = after[num_updates03 + 1]

C11_Witness ==
    /\ pc03 = "done"
    /\ learning_rate03 = TRIVIAL_LEARNING_RATE
    /\ num_updates03 = TRIVIAL_NUM_UPDATES
    /\ target03 = trivial_target
    /\ Len(OutputLines) = TRIVIAL_NUM_UPDATES + 1
    /\ OutputLines[1].y = Rat(55, 100)
    /\ OutputLines[2].y = Rat(29725, 1000)
    /\ w # W

\* Scenario A: the notebook's own learning rate and expected output.
ScenarioA == learning_rate03 = TRIVIAL_LEARNING_RATE /\ target03 = trivial_target

\* |target - y|
Distance(yv) == RAbs(RSub(trivial_target, yv))

\* |v - ref| <= ref / 100
WithinOnePercent(v, ref) == ~RLess(RMul(ref, Rat(1, 100)), RAbs(RSub(v, ref)))

\* C12: in scenario A every output printed is closer to 20.0 than the one
\* before it, and after the eleven calls of the notebook's own budget the
\* weights are within 1% of 15.74 and 8.47: the stored ones (eleven
\* updates) and the ones printed (ten updates) alike.
C12_ScenarioAConverges ==
    ScenarioA =>
        /\ \A k \in 1..(Len(OutputLines) - 1) :
            RLess(Distance(OutputLines[k + 1].y), Distance(OutputLines[k].y))
        /\ (pc03 = "done" /\ num_updates03 = TRIVIAL_NUM_UPDATES) =>
            /\ Len(OutputLines) = 11
            /\ WithinOnePercent(W[1], Rat(1574, 100))
            /\ WithinOnePercent(W[2], Rat(847, 100))
            /\ WithinOnePercent(w[1], Rat(1574, 100))
            /\ WithinOnePercent(w[2], Rat(847, 100))

C12_Witness ==
    /\ pc03 = "done"
    /\ ScenarioA
    /\ num_updates03 = TRIVIAL_NUM_UPDATES
    /\ OutputLines[11].y = Rat(409211, 20480)
    /\ RLess(Rat(1574, 100), W[1])
    /\ RLess(W[2], Rat(85, 10))

\* C13: with a learning rate of zero one update step leaves every
\* parameter as it was, whatever the gradient: a train call of the music
\* notebook leaves W1 ... B3, a call of f of the two-weight notebook leaves W.
C13_ZeroRateIdentity ==
    [][/\ (learning_rate = ZeroRate /\ pc = "train") =>
            /\ applied' = applied + 1
            /\ shared' = shared
       /\ (learning_rate03 = Rat(0, 1) /\ pc03 = "for" /\ RangeHasNext(update, num_updates03)) =>
            /\ update' = update + 1
            /\ W' = W
            /\ w' = W]_vars

\* A zero-rate run of the music notebook just after its last train call,
\* on a batch whose gradient is not zero.
C13_WitnessTrain ==
    /\ learning_rate = ZeroRate
    /\ pc = "cell8"
    /\ ~IsEvalStep(i, eval_step)
    /\ applied >= 2
    /\ shared = rng
    /\ \E n \in ParamNames : Grad(n, shared, inputs, targets) # 0

\* A zero-rate run of the two-weight notebook, gradient below zero.
C13_WitnessF ==
    /\ learning_rate03 = Rat(0, 1)
    /\ pc03 = "done"
    /\ update >= 2
    /\ trivial_gradients(trivial_x, target03, w)[1][1].num < 0
    /\ W = W_initial

\* C14: the steps of the music notebook run one after the other and whole.
\* The batch of step k = i + 1 is drawn when exactly k - 1 updates have
\* been applied and nothing else happens before its train call; the train
\* call applies exactly one update and the next batch is drawn only after
\* it; the evaluation after step k reads the parameters of exactly k
\* updates, changes none, and its report carries that k.
C14_WholeStepsInOrder ==
    [][/\ (pc = "get_train_sample") =>
            /\ applied = i
            /\ pc' = "train"
            /\ shared' = shared /\ applied' = applied /\ i' = i
       /\ (pc = "train" /\ pc' # Raise) =>
            /\ applied = i
            /\ applied' = applied + 1
            /\ shared' = ApplyUpdates(shared, updates(shared, inputs, targets))
            /\ pc' \in {"get_test", "get_train_sample", "cell8"}
            /\ pc' = "get_test" => i' = i
            /\ pc' = "get_train_sample" => (i' = i + 1 /\ applied' = i')
       /\ (pc = "get_test") =>
            /\ applied = i + 1
            /\ shared' = shared /\ applied' = applied /\ i' = i
            /\ pc' = "score" => predictions' = y(shared, file.test.rows)
       /\ (pc = "score") =>
            /\ applied = i + 1
            /\ shared' = shared /\ applied' = applied
            /\ stdout'[Len(stdout')].step = applied
            /\ pc' = "get_train_sample" => i' = applied]_vars

C14_Witness ==
    /\ pc = "get_train_sample"
    /\ learning_rate = LEARNING_RATE
    /\ applied = 2
    /\ i = 2
    /\ Len(AccuracyLines) = 2
    /\ AccuracyLines[1].percent # AccuracyLines[2].percent
    /\ shared # rng

\* The step of the last report, 0 when there is none.
LastScored ==
    IF AccuracyLines = <<>> THEN 0 ELSE AccuracyLines[Len(AccuracyLines)].step

\* C16: when the loop of the music notebook is over, the parameters as the
\* last update left them have been scored iff num_updates is a multiple of
\* eval_step (num_updates is at least 1); otherwise the last
\* num_updates mod eval_step updates have no evaluation after them, and
\* with eval_step > num_updates nothing has been reported.
C16_FinalScoredIffMultiple ==
    pc \in {"cell8", "done"} =>
        /\ applied = num_updates
        /\ (LastScored = applied) <=> (num_updates % eval_step = 0)
        /\ applied - LastScored = num_updates % eval_step
        /\ eval_step > num_updates => AccuracyLines = <<>>

C16_Witness ==
    /\ pc = "done"
    /\ num_updates = 3
    /\ eval_step = 2
    /\ applied = 3
    /\ Len(AccuracyLines) = 1
    /\ LastScored = 2
    /\ shared # rng

FinalLines == SelectSeq(stdout03, LAMBDA l : l.kind = "final")

\* C15: when the loop of the two-weight notebook is over, W has had
\* NUM_UPDATES + 1 updates and the weights printed as final are those of
\* NUM_UPDATES updates; the weights f returned are at all times exactly one
\* update behind the stored ones.
C15_PrintedOneUpdateBehind ==
    /\ update >= 0 => W = OneUpdate(w)
    /\ pc03 = "done" =>
        \A after \in {WTrace(num_updates03 + 1)} :
            /\ update + 1 = num_updates03 + 1
            /\ W = after[num_updates03 + 2]
            /\ Len(FinalLines) = 1
            /\ <<FinalLines[1].w1, FinalLines[1].w2>> = after[num_updates03 + 1]
            /\ W = OneUpdate(<<FinalLines[1].w1, FinalLines[1].w2>>)

C15_Witness ==
    /\ pc03 = "done"
    /\ ScenarioA
    /\ num_updates03 = TRIVIAL_NUM_UPDATES
    /\ RLess(Rat(157448, 10000), FinalLines[1].w1)
    /\ RLess(FinalLines[1].w1, Rat(157449, 10000))
    /\ RLess(Rat(84724, 10000), FinalLines[1].w2)
    /\ RLess(FinalLines[1].w2, Rat(84725, 10000))
    /\ RLess(FinalLines[1].w1, W[1])

============================================================================
